---- MODULE Spec2Model ----
(***************************************************************************)
(* Inference-request lifecycle of the CPU plugin (infer_request.cpp):      *)
(* LegacyInferRequest and InferRequest bind user blobs to the inputs and   *)
(* outputs of an execution graph (SetBlob / GetBlob / SetBatch) and run    *)
(* the graph (InferImpl) under cancellation checkpoints.                   *)
(* Beside it: the operation check of the CPU plugin's reshape node         *)
(* (mkldnn_reshape_node.cpp), the parameter validation of the GPU kernel   *)
(* ConvolutionKernel_b_fs_yx_fsv4_int8, and the request counter that the   *)
(* requests of one executable network share.                               *)
(***************************************************************************)
EXTENDS Integers, Sequences, FiniteSets, TLC

VARIABLES
    cfg,             \* what the executable network was compiled with (fixed)
    phase,           \* "none" | "live" | "failed" | "destroyed"
    graphReady,      \* graph->IsReady()
    numRequests,     \* execNetwork->_numRequests
    modelInputsMap,  \* InferRequest::modelInputsMap : name -> "node" | "null"
    modelOutputsMap, \* InferRequest::modelOutputsMap: name -> "node" | "null"
    inputs,          \* _inputs      : name -> blob
    outputs,         \* _outputs     : name -> blob
    externalPtr,     \* externalPtr  : name -> blob whose buffer it points to
    preProcData,     \* _preProcData : name -> ROI blob (NullBlob: none set)
    m_curBatch,      \* m_curBatch
    nodeBatchLim,    \* node -> dynamic batch limit of that graph node
    fixedLayout,     \* blobs whose ANY layout PushInputData has overwritten
    pc,              \* position of the running InferImpl, "idle" when none
    asyncState,      \* state of the attached async request
    steps,           \* history: what the current / last InferImpl run did
    last,            \* history: the last API call and how it ended
    lastSet,         \* history: name -> blob of the last successful SetBlob
    nodeOp,          \* the ngraph op handed to MKLDNNReshapeNode
    errorMessage,    \* the caller's errorMessage string
    nodeCall,        \* history: the last call on MKLDNNReshapeNode
    params,          \* the convolution_params handed to Validate
    validated,       \* whether Validate was called, and what it returned
    requests         \* request -> where it is in its life (all requests of
                     \* the executable network)

\* the reshape node, the convolution kernel, the requests of the network
nodeVars == <<nodeOp, errorMessage, nodeCall>>
kernelVars == <<params, validated>>
networkVars == <<requests>>

requestVars == <<cfg, phase, graphReady, numRequests, modelInputsMap,
                 modelOutputsMap, inputs, outputs, externalPtr, preProcData,
                 m_curBatch, nodeBatchLim, fixedLayout, pc, asyncState, steps,
                 last, lastSet>>

vars == <<requestVars, nodeVars, kernelVars, networkVars>>

bindings == <<inputs, outputs, externalPtr, preProcData>>

-----------------------------------------------------------------------------
(* Bounds of the model. *)

\* batchLimit of a network compiled with dynamic batch
MaxBatch == 2

\* requests one executable network creates
MaxRequests == 3
\* number of nodes of the execution graph
NumNodes == 2
\* number of distinct allocated user blobs that match the FP32 inputs
NumGood == 1

Nodes == 1..NumNodes

-----------------------------------------------------------------------------
(* The network: inputs "a" and "c", outputs "b" and "c" ("c" is both: a    *)
(* parameter wired straight to a result).  "" and "x" are names of no      *)
(* input or output.                                                        *)

NetInputs == {"a", "c"}
NetOutputs == {"b", "c"}
NetNames == NetInputs \cup NetOutputs
Names == NetNames \cup {"", "x"}

\* std::map iterates its keys in order
InputOrder == <<"a", "c">>
OutputOrder == <<"b", "c">>

NetInPrec(name) == "FP32"
NetOutPrec(name) == IF name = "b" THEN "U8" ELSE "FP32"
NetDims == <<2, 2>>
NetLayout == "NC"

\* partial shape of a model input / output (-1: a dynamic dimension)
ModelShape(name) ==
    IF ~cfg.modelDynamic THEN NetDims
    ELSE IF name = "c" THEN <<-1, -1>> ELSE <<-1, 2>>

-----------------------------------------------------------------------------
(* Blobs.  A blob is named by an identifier; NullBlob is the null          *)
(* Blob::Ptr.  User blobs are one of each kind the checks of SetBlob tell  *)
(* apart; GetBlob allocates "in:<name>" / "out:<name>".                    *)

NullBlob == "null"
GoodBlobs == {"g" \o ToString(i) : i \in 1..NumGood}
UserBlobs == GoodBlobs \cup
    {"any", "u8", "nobuf", "compound", "reshaped", "big", "empty", "cn", "flat"}
InBlob(name) == "in:" \o name
OutBlob(name) == "out:" \o name
AllocBlobs == {InBlob(n) : n \in NetInputs} \cup {OutBlob(n) : n \in NetOutputs}
Blobs == UserBlobs \cup AllocBlobs

IsCompound(b) == b = "compound"
HasBuffer(b) == b \notin {"nobuf", "compound"}

RECURSIVE Product(_)
Product(s) == IF s = <<>> THEN 1 ELSE Head(s) * Product(Tail(s))

Zeros(n) == [i \in 1..n |-> 0]
IsDynamic(shape) == \E i \in 1..Len(shape) : shape[i] = -1

\* desc of the blob GetBlob allocates for an input / output
AllocDims(name) ==
    IF cfg.kind = "new" /\ IsDynamic(ModelShape(name))
    THEN Zeros(Len(ModelShape(name))) ELSE NetDims

Prec(b) ==
    IF b = "u8" THEN "U8"
    ELSE IF b \in {OutBlob(n) : n \in NetOutputs} THEN NetOutPrec(
            CHOOSE n \in NetOutputs : b = OutBlob(n))
    ELSE "FP32"

Dims(b) ==
    CASE b = "reshaped" -> <<4, 1>>
      [] b = "big" -> <<2, 3>>
      [] b = "empty" -> <<0, 2>>
      [] b = "flat" -> <<6>>
      [] b \in AllocBlobs ->
            AllocDims(CHOOSE n \in NetNames : b \in {InBlob(n), OutBlob(n)})
      [] OTHER -> NetDims

BaseLayout(b) ==
    CASE b = "any" -> "ANY"
      [] b = "cn" -> "CN"
      [] b = "flat" -> "C"
      [] OTHER -> "NC"

Layout(b) == IF b \in fixedLayout THEN NetLayout ELSE BaseLayout(b)

Size(b) == Product(Dims(b))

\* getTensorDesc()
Desc(b) == [prec |-> Prec(b), dims |-> Dims(b), layout |-> Layout(b)]

-----------------------------------------------------------------------------
(* std::map helpers. *)

EmptyMap == [n \in {} |-> NullBlob]
Has(m, k) == k \in DOMAIN m
Put(m, k, v) == [n \in DOMAIN m \cup {k} |-> IF n = k THEN v ELSE m[n]]
Erase(m, k) == [n \in DOMAIN m \ {k} |-> m[n]]
\* m[k] of std::map: inserts a null entry when k is absent
Index(m, k) == IF Has(m, k) THEN m ELSE Put(m, k, NullBlob)

(* The bindings of a request while a call works on them, with the call's   *)
(* outcome: exc "none" = returned, otherwise the exception thrown.         *)
Request ==
    [inputs |-> inputs, outputs |-> outputs, externalPtr |-> externalPtr,
     preProcData |-> preProcData, exc |-> "none", msg |-> "", ret |-> NullBlob]

Throw(st, type, text) == [st EXCEPT !.exc = type, !.msg = text]
Threw(st) == st.exc # "none"

-----------------------------------------------------------------------------
(* The graph and the base class, as far as the request reads them. *)

\* desc of the graph memory behind an input / output node
GraphInDesc(name) == [prec |-> NetInPrec(name), dims |-> NetDims, layout |-> NetLayout]
GraphOutDesc(name) == [prec |-> NetOutPrec(name), dims |-> NetDims, layout |-> NetLayout]

\* graph->inputNodesMap / outputNodesMap: the graph is built from the network
GraphInputs == NetInputs
GraphOutputs == NetOutputs

\* graph->_normalizePreprocMap: inputs with a mean image
NormalizePreprocMap == {}

\* graph->hasDynamicInput(): dynamic batch compiles the graph for the upper bound
HasDynamicInput == cfg.modelDynamic /\ cfg.batchLimit = 0

\* IInferRequestInternal::findInputAndOutputBlobByName: the input wins
findInputAndOutputBlobByName(name) ==
    IF name \in NetInputs THEN [found |-> TRUE, foundInput |-> TRUE, foundOutput |-> FALSE]
    ELSE IF name \in NetOutputs THEN [found |-> TRUE, foundInput |-> FALSE, foundOutput |-> TRUE]
    ELSE [found |-> FALSE, foundInput |-> FALSE, foundOutput |-> FALSE]

\* IInferRequestInternal::preProcessingRequired(info, userBlob)
preProcessingRequired(name, data) ==
    \/ cfg.preProc = "resize"
    \/ cfg.preProc = "color" /\ Layout(data) # NetLayout
    \/ Prec(data) # NetInPrec(name)

\* PreProcessData::isApplicable(src, dst): FALSE when it throws
isApplicable(src, dst) == dst # NullBlob /\ Len(Dims(src)) = Len(Dims(dst))

\* IInferRequestInternal::checkBlob: the exception it throws, "none" if none
checkBlob(data, name, isInput) ==
    IF data = NullBlob THEN "NotAllocated"
    ELSE IF name \notin (IF isInput THEN NetInputs ELSE NetOutputs) THEN "NotFound"
    ELSE IF Product(NetDims) # Size(data) THEN "General"
    ELSE IF ~HasBuffer(data) THEN "General"
    ELSE "none"

\* lines 396, 452, 694, 731: the blob's precision is not the network's
PrecisionMismatch_Never(netPrec, data) == FALSE
PrecisionMismatch(netPrec, data) == netPrec # Prec(data)

-----------------------------------------------------------------------------
(* LegacyInferRequest::SetBlob *)

\* lines 395-446: the input half
LegacySetInput(st, name, data) ==
    IF PrecisionMismatch(NetInPrec(name), data)
    THEN Throw(st, "ParameterMismatch", "input precision")
    ELSE LET preProcRequired == preProcessingRequired(name, data) IN
    IF IsCompound(data) /\ ~preProcRequired
    THEN Throw(st, "NotImplemented", "compound blob")
    ELSE IF preProcRequired
    THEN LET s1 == [st EXCEPT !.preProcData = Index(st.preProcData, name),
                              !.inputs = Index(st.inputs, name)]
         IN IF ~isApplicable(data, s1.inputs[name])
            THEN Throw(s1, "General", "pre-processing not applicable")
            ELSE [s1 EXCEPT !.preProcData = Put(s1.preProcData, name, data)]
    ELSE IF Size(data) # Product(NetDims)
    THEN Throw(st, "General", "input size")
    ELSE IF NetDims # Dims(data)
    THEN Throw(st, "ParameterMismatch", "input dimensions")
    ELSE IF Layout(data) # "ANY" /\ NetLayout # "ANY" /\ NetLayout # Layout(data)
    THEN Throw(st, "ParameterMismatch", "input blocking descriptor")
    ELSE LET s1 ==
                IF /\ Desc(data) = GraphInDesc(name)
                   /\ name \notin NormalizePreprocMap
                   /\ cfg.batchLimit = 0
                THEN [st EXCEPT !.externalPtr = Put(st.externalPtr, name, data)]
                ELSE [st EXCEPT !.externalPtr = Erase(st.externalPtr, name)]
         IN [s1 EXCEPT !.inputs = Put(s1.inputs, name, data)]

\* lines 447-482: the output half
LegacySetOutput(st, name, data) ==
    IF IsCompound(data)
    THEN Throw(st, "NotImplemented", "compound blob")
    ELSE IF PrecisionMismatch(NetOutPrec(name), data)
    THEN Throw(st, "ParameterMismatch", "output precision")
    ELSE IF Size(data) # Product(NetDims)
    THEN Throw(st, "General", "output size")
    ELSE IF NetDims # Dims(data)
    THEN Throw(st, "ParameterMismatch", "output dimensions")
    ELSE IF Layout(data) # "ANY" /\ NetLayout # "ANY" /\ NetLayout # Layout(data)
    THEN Throw(st, "ParameterMismatch", "output blocking descriptor")
    ELSE LET s1 ==
                IF Desc(data) = GraphOutDesc(name) /\ cfg.batchLimit = 0
                THEN [st EXCEPT !.externalPtr = Put(st.externalPtr, name, data)]
                ELSE [st EXCEPT !.externalPtr = Erase(st.externalPtr, name)]
         IN [s1 EXCEPT !.outputs = Put(s1.outputs, name, data)]

\* lines 377-388: the argument checks; the exception thrown, "none" if none
LegacyCheckArgs(name, data) ==
    IF name = "" THEN "NotFound"
    ELSE IF data = NullBlob THEN "NotAllocated"
    ELSE IF ~IsCompound(data) /\ ~HasBuffer(data) THEN "NotAllocated"
    ELSE IF Size(data) = 0 THEN "General"
    ELSE "none"

LegacySetBlob(st, name, data) ==
    IF LegacyCheckArgs(name, data) # "none"
    THEN Throw(st, LegacyCheckArgs(name, data), "bad argument")
    ELSE LET f == findInputAndOutputBlobByName(name) IN
    IF ~f.found THEN Throw(st, "NotFound", "no input or output of this name")
    ELSE LET s1 == IF f.foundInput THEN LegacySetInput(st, name, data) ELSE st
         IN IF Threw(s1) \/ ~f.foundOutput THEN s1
            ELSE LegacySetOutput(s1, name, data)

-----------------------------------------------------------------------------
(* LegacyInferRequest::GetBlob *)

\* lines 488 / 760: !graph || !graph->IsReady(); CreateInferRequest sets the
\* graph pointer before the first GetBlob
GraphNotReady_Never == FALSE
GraphNotReady == ~graphReady

\* lines 503-525: allocate the input blob on first use
LegacyAllocInput(st, name) ==
    IF Has(st.inputs, name) THEN st
    ELSE LET s1 == [st EXCEPT !.inputs = Put(st.inputs, name, InBlob(name))]
         IN IF /\ GraphInDesc(name) = Desc(InBlob(name))
               /\ name \notin NormalizePreprocMap
               /\ cfg.batchLimit = 0
            THEN [s1 EXCEPT !.externalPtr = Put(s1.externalPtr, name, InBlob(name))]
            ELSE s1

\* lines 526-544: check the input blob, note pre-processing still to be set
LegacyCheckInput(st, name) ==
    LET data == st.inputs[name] IN
    IF checkBlob(data, name, TRUE) # "none"
    THEN Throw(st, checkBlob(data, name, TRUE), "checkBlob")
    ELSE IF name \in NetInputs /\ ~findInputAndOutputBlobByName(name).foundInput
    THEN Throw(st, "General", "absent in network inputs")
    ELSE IF name \in NetInputs /\ preProcessingRequired(name, data)
    THEN LET s1 == [st EXCEPT !.preProcData = Index(st.preProcData, name)]
         IN IF ~isApplicable(data, s1.inputs[name])
            THEN Throw(s1, "General", "pre-processing not applicable")
            ELSE [s1 EXCEPT !.preProcData = Put(s1.preProcData, name, data),
                            !.ret = data]
    ELSE [st EXCEPT !.ret = data]

\* lines 547-594: the output half; st.ret is the input blob found so far
LegacyGetOutput(st, name) ==
    LET data == st.ret
        expected == GraphOutDesc(name)
        s1 == IF Has(st.outputs, name) THEN st
              ELSE IF data = NullBlob
              THEN LET s2 == [st EXCEPT !.outputs = Put(st.outputs, name, OutBlob(name))]
                   IN IF /\ ~Has(s2.externalPtr, name)
                         /\ Desc(OutBlob(name)) = expected
                         /\ cfg.batchLimit = 0
                      THEN [s2 EXCEPT !.externalPtr = Put(s2.externalPtr, name, OutBlob(name))]
                      ELSE s2
              ELSE IF expected.prec # Prec(data)
              THEN Throw(st, "ParameterMismatch", "same name, different precision")
              ELSE IF expected.dims # Dims(data)
              THEN Throw(st, "ParameterMismatch", "same name, different shapes")
              ELSE IF Layout(data) # "ANY" /\ expected.layout # "ANY"
                      /\ expected.layout # Layout(data)
              THEN Throw(st, "ParameterMismatch", "same name, different blocking")
              ELSE LET s2 == [st EXCEPT !.outputs = Put(st.outputs, name, data)]
                   IN IF /\ ~Has(s2.externalPtr, name)
                         /\ Desc(data) = expected
                         /\ cfg.batchLimit = 0
                      THEN [s2 EXCEPT !.externalPtr = Put(s2.externalPtr, name, data)]
                      ELSE s2
    IN IF Threw(s1) THEN s1
       ELSE IF checkBlob(s1.outputs[name], name, FALSE) # "none"
       THEN Throw(s1, checkBlob(s1.outputs[name], name, FALSE), "checkBlob")
       ELSE [s1 EXCEPT !.ret = s1.outputs[name]]

\* lines 493-501: the ROI blob is returned only if it was set previously
LegacyReturnsRoi_Never(st, name) == FALSE
LegacyReturnsRoi(st, name) == name \in GraphInputs /\ Has(st.preProcData, name)

LegacyGetBlob(st, name) ==
    IF GraphNotReady THEN Throw(st, "General", "Graph is not ready!")
    ELSE IF LegacyReturnsRoi(st, name)
    THEN [st EXCEPT !.ret = st.preProcData[name]]
    ELSE LET s1 == IF name \in GraphInputs
                   THEN LegacyCheckInput(LegacyAllocInput(st, name), name)
                   ELSE st
         IN IF Threw(s1) THEN s1
            ELSE LET s2 == IF name \in GraphOutputs THEN LegacyGetOutput(s1, name) ELSE s1
                 IN IF Threw(s2) THEN s2
                    ELSE IF s2.ret = NullBlob
                    THEN Throw(s2, "General", "Cannot find blob with name")
                    ELSE s2

-----------------------------------------------------------------------------
(* InferRequest::SetBlob *)

\* ov::PartialShape::compatible with a static shape
Compatible(shape, dims) ==
    /\ Len(shape) = Len(dims)
    /\ \A i \in 1..Len(shape) : shape[i] = -1 \/ shape[i] = dims[i]

\* lines 668-684: which map the name is found in; the exception thrown, or
\* "input" / "output"
NewLookup_NoNotFound(name) ==
    IF Has(modelInputsMap, name)
    THEN IF modelInputsMap[name] = "null" THEN "General" ELSE "input"
    ELSE IF Has(modelOutputsMap, name) /\ modelOutputsMap[name] = "null"
    THEN "General"
    ELSE "output"
NewLookup(name) ==
    IF Has(modelInputsMap, name)
    THEN IF modelInputsMap[name] = "null" THEN "General" ELSE "input"
    ELSE IF Has(modelOutputsMap, name)
    THEN IF modelOutputsMap[name] = "null" THEN "General" ELSE "output"
    ELSE "NotFound"

\* lines 661-688: the argument checks; the exception thrown, "none" if none
NewCheckArgs_NoBufferCheck(name, data) ==
    IF name = "" THEN "NotFound"
    ELSE IF data = NullBlob THEN "NotAllocated"
    ELSE IF NewLookup(name) \notin {"input", "output"} THEN NewLookup(name)
    ELSE "none"
NewCheckArgs(name, data) ==
    IF name = "" THEN "NotFound"
    ELSE IF data = NullBlob THEN "NotAllocated"
    ELSE IF NewLookup(name) \notin {"input", "output"} THEN NewLookup(name)
    ELSE IF ~IsCompound(data) /\ ~HasBuffer(data) THEN "NotAllocated"
    ELSE "none"

\* lines 711-719: actualDesc->isCompatible(convertToCpuBlockedMemoryDesc(blobDesc))
InputDescCompatible(name, data) ==
    LET actual == IF HasDynamicInput
                  THEN [GraphInDesc(name) EXCEPT !.dims = Dims(data)]
                  ELSE GraphInDesc(name)
    IN actual = Desc(data)

\* lines 692-725: the input half
NewSetInput(st, name, data) ==
    LET shape == ModelShape(name) IN
    IF PrecisionMismatch(NetInPrec(name), data)
    THEN Throw(st, "ParameterMismatch", "input precision")
    ELSE IF ~Compatible(shape, Dims(data))
    THEN Throw(st, "General", "incompatible shapes")
    ELSE IF ~IsDynamic(shape) /\ Product(shape) # Size(data)
    THEN Throw(st, "General", "different size")
    ELSE IF Layout(data) = "ANY"
    THEN Throw(st, "General", "ANY layout has no blocked descriptor")
    ELSE LET s1 ==
                IF /\ InputDescCompatible(name, data)
                   /\ name \notin NormalizePreprocMap
                   /\ cfg.batchLimit = 0
                THEN [st EXCEPT !.externalPtr = Put(st.externalPtr, name, data)]
                ELSE [st EXCEPT !.externalPtr = Erase(st.externalPtr, name)]
         IN [s1 EXCEPT !.inputs = Put(s1.inputs, name, data)]

\* lines 726-754: the output half
NewSetOutput(st, name, data) ==
    LET shape == ModelShape(name) IN
    IF IsCompound(data)
    THEN Throw(st, "NotImplemented", "compound blob")
    ELSE IF PrecisionMismatch(NetOutPrec(name), data)
    THEN Throw(st, "ParameterMismatch", "output precision")
    ELSE IF ~Compatible(shape, Dims(data))
    THEN Throw(st, "General", "incompatible shapes")
    ELSE IF ~IsDynamic(shape) /\ Product(shape) # Size(data)
    THEN Throw(st, "General", "different size")
    ELSE LET s1 ==
                IF /\ ~IsDynamic(shape)
                   /\ Desc(data) = GraphOutDesc(name)
                   /\ cfg.batchLimit = 0
                THEN [st EXCEPT !.externalPtr = Put(st.externalPtr, name, data)]
                ELSE [st EXCEPT !.externalPtr = Erase(st.externalPtr, name)]
         IN [s1 EXCEPT !.outputs = Put(s1.outputs, name, data)]

NewSetBlob(st, name, data) ==
    IF NewCheckArgs(name, data) # "none"
    THEN Throw(st, NewCheckArgs(name, data), "bad argument")
    ELSE IF NewLookup(name) = "input" THEN NewSetInput(st, name, data)
    ELSE NewSetOutput(st, name, data)

-----------------------------------------------------------------------------
(* InferRequest::GetBlob *)

\* lines 767-800: the input half
NewGetInput(st, name) ==
    IF Has(st.inputs, name) THEN [st EXCEPT !.ret = st.inputs[name]]
    ELSE IF ~Has(modelInputsMap, name)
    THEN Throw(st, "General", "absent in network inputs")
    ELSE IF modelInputsMap[name] = "null"
    THEN Throw(st, "General", "null pointer to input node")
    ELSE LET s1 == [st EXCEPT !.inputs = Put(st.inputs, name, InBlob(name))]
             s2 == IF /\ ~IsDynamic(ModelShape(name))
                      /\ Desc(InBlob(name)) = GraphInDesc(name)
                      /\ name \notin NormalizePreprocMap
                      /\ cfg.batchLimit = 0
                   THEN [s1 EXCEPT !.externalPtr = Put(s1.externalPtr, name, InBlob(name))]
                   ELSE s1
         IN [s2 EXCEPT !.ret = s2.inputs[name]]

\* lines 802-849: the output half; st.ret is the input blob found so far
NewGetOutput(st, name) ==
    IF Has(st.outputs, name) THEN [st EXCEPT !.ret = st.outputs[name]]
    ELSE IF ~Has(modelOutputsMap, name)
    THEN Throw(st, "General", "absent in network outputs")
    ELSE LET shape == ModelShape(name)
             data == IF st.ret = NullBlob THEN OutBlob(name) ELSE st.ret
         IN IF st.ret # NullBlob /\ ~Compatible(shape, Dims(data))
            THEN Throw(st, "ParameterMismatch", "same name, different shapes")
            ELSE IF st.ret # NullBlob /\ NetOutPrec(name) # Prec(data)
            THEN Throw(st, "ParameterMismatch", "same name, different precision")
            ELSE LET s1 == [st EXCEPT !.outputs = Put(st.outputs, name, data)]
                     s2 == IF /\ ~IsDynamic(shape)
                              /\ ~Has(s1.externalPtr, name)
                              /\ Desc(data) = GraphOutDesc(name)
                              /\ cfg.batchLimit = 0
                           THEN [s1 EXCEPT !.externalPtr = Put(s1.externalPtr, name, data)]
                           ELSE s1
                 IN [s2 EXCEPT !.ret = s2.outputs[name]]

NewGetBlob(st, name) ==
    IF GraphNotReady THEN Throw(st, "General", "Graph is not ready!")
    ELSE LET s1 == IF name \in GraphInputs THEN NewGetInput(st, name) ELSE st
         IN IF Threw(s1) THEN s1
            ELSE LET s2 == IF name \in GraphOutputs THEN NewGetOutput(s1, name) ELSE s1
                 IN IF Threw(s2) THEN s2
                    ELSE IF s2.ret = NullBlob
                    THEN Throw(s2, "General", "Cannot find blob with name")
                    ELSE s2

-----------------------------------------------------------------------------
(* SetBatch.  The exception thrown, "none" if none. *)

\* LegacyInferRequest::SetBatch, lines 360-366
LegacySetBatchCheck(new_batch) ==
    IF ~cfg.enableDynamicBatch THEN "General"
    ELSE IF new_batch < 1 \/ new_batch > cfg.batchLimit THEN "General"
    ELSE "none"

\* InferRequest::SetBatch, lines 644-650
NewSetBatchCheck(new_batch) ==
    IF cfg.batchLimit = 0 \/ ~IsDynamic(ModelShape(InputOrder[1])) THEN "General"
    ELSE IF new_batch < 1 \/ new_batch > cfg.batchLimit THEN "General"
    ELSE "none"

SetBatchCheck(new_batch) ==
    IF cfg.kind = "legacy" THEN LegacySetBatchCheck(new_batch)
    ELSE NewSetBatchCheck(new_batch)

\* lines 368-372 / 652-656: every node of the graph gets the new limit
SetDynamicBatchLim_FirstOnly(new_batch) ==
    [n \in Nodes |-> IF n = 1 THEN new_batch ELSE nodeBatchLim[n]]
SetDynamicBatchLim(new_batch) == [n \in Nodes |-> new_batch]

-----------------------------------------------------------------------------
(* Construction. *)

GetBlob(st, name) ==
    IF cfg.kind = "legacy" THEN LegacyGetBlob([st EXCEPT !.ret = NullBlob], name)
    ELSE NewGetBlob([st EXCEPT !.ret = NullBlob], name)

SetBlob(st, name, data) ==
    IF cfg.kind = "legacy" THEN LegacySetBlob(st, name, data)
    ELSE NewSetBlob(st, name, data)

\* initBlobs, lines 350-357 / 634-641: GetBlob on every input, then every output
InitBlobsOrder_InputsOnly == InputOrder
InitBlobsOrder == InputOrder \o OutputOrder

RECURSIVE GetBlobs(_, _)
GetBlobs(st, names) ==
    IF names = <<>> \/ Threw(st) THEN st
    ELSE GetBlobs(GetBlob(st, Head(names)), Tail(names))

\* CreateInferRequest, lines 32-40
CreateInferRequest(st) ==
    IF cfg.graphs = 0 THEN Throw(st, "General", "No graph was found")
    ELSE GetBlobs(st, InitBlobsOrder)

NoCall == [op |-> "none", name |-> "", blob |-> NullBlob, n |-> 0,
           exc |-> "none", msg |-> "", ret |-> NullBlob]
Call(op, name, blob, n, st) ==
    [op |-> op, name |-> name, blob |-> blob, n |-> n,
     exc |-> st.exc, msg |-> st.msg, ret |-> st.ret]

NoneSet == [n \in NetNames |-> NullBlob]

Configs ==
    {c \in [kind : {"legacy", "new"}, batchLimit : {0, MaxBatch},
            enableDynamicBatch : BOOLEAN, modelDynamic : BOOLEAN,
            preProc : {"none", "resize", "color"}, hasStates : BOOLEAN,
            async : BOOLEAN, graphs : {0, 1}] :
        /\ c.kind = "legacy" => ~c.modelDynamic
        /\ c.kind = "new" => ~c.enableDynamicBatch /\ c.preProc = "none"
        /\ c.graphs = 0 => /\ c.batchLimit = 0 /\ ~c.enableDynamicBatch
                           /\ ~c.modelDynamic /\ c.preProc = "none"
                           /\ ~c.hasStates /\ ~c.async}

-----------------------------------------------------------------------------
(* MKLDNNReshapeNode (mkldnn_reshape_node.cpp): which ngraph ops the node  *)
(* accepts.                                                                *)

\* the classes of the ops a graph hands to the node; the first three are
\* what ngraph::opset1::Reshape, Squeeze and Unsqueeze name
OpTypes == {"Reshape", "Squeeze", "Unsqueeze", "Transpose", "Convert", "Parameter"}

\* an op: its class, and what isDynamicNgraphNode makes of its shapes
\* ("throws": it raises an exception)
Ops == [type : OpTypes, dynamic : {"no", "yes", "throws"}]

\* what the caller's string holds before the call
Messages == {"", "stale"}

DynamicShapesMessage == "Doesn't support op with dynamic shapes"
OnlyOpset1Message == "Only opset1 Reshape, Squeeze, Unsqueeze operations are supported"

\* isDynamicNgraphNode(op)
isDynamicNgraphNode(o) == o.dynamic

\* std::dynamic_pointer_cast<const T>(op) is not null
dynamic_pointer_cast(type, o) == o.type = type

\* the try block of isSupportedOperation, lines 17-26: the exception that
\* leaves it ("none": none), what it returns, what it leaves in errorMessage
TryBlock(o, msg) ==
    IF isDynamicNgraphNode(o) = "throws"
    THEN [exc |-> "General", ret |-> FALSE, errorMessage |-> msg]
    ELSE IF isDynamicNgraphNode(o) = "yes"
    THEN [exc |-> "none", ret |-> FALSE, errorMessage |-> DynamicShapesMessage]
    ELSE IF /\ ~dynamic_pointer_cast("Reshape", o)
            /\ ~dynamic_pointer_cast("Squeeze", o)
            /\ ~dynamic_pointer_cast("Unsqueeze", o)
    THEN [exc |-> "none", ret |-> FALSE, errorMessage |-> OnlyOpset1Message]
    ELSE [exc |-> "none", ret |-> TRUE, errorMessage |-> msg]

\* isSupportedOperation, lines 15-31: every exception of the try block ends
\* in the catch of lines 27-29
isSupportedOperation_NoCatch(o, msg) == TryBlock(o, msg)

isSupportedOperation(o, msg) ==
    LET r == TryBlock(o, msg) IN
    IF r.exc # "none" THEN [r EXCEPT !.exc = "none", !.ret = FALSE] ELSE r

\* the constructor taking an ngraph op, lines 33-39: the exception it ends
\* with ("none": the node is built) and the exception's text; the base class
\* MKLDNNNode is constructed first
MKLDNNReshapeNode(o, base) ==
    IF base # "none" THEN [exc |-> base, what |-> "MKLDNNNode"]
    ELSE LET r == isSupportedOperation(o, "") IN
         IF r.exc # "none" THEN [exc |-> r.exc, what |-> "isDynamicNgraphNode"]
         ELSE IF ~r.ret THEN [exc |-> "NotImplemented", what |-> r.errorMessage]
         ELSE [exc |-> "none", what |-> ""]

NoNodeCall == [fn |-> "none", ret |-> FALSE, exc |-> "none", what |-> "", base |-> "none"]

\* no call on the reshape node
NodeIdle ==
    /\ nodeOp = [type |-> "Reshape", dynamic |-> "no"]
    /\ errorMessage = ""
    /\ nodeCall = NoNodeCall

-----------------------------------------------------------------------------
(* ConvolutionKernel_b_fs_yx_fsv4_int8::Validate: which convolutions the   *)
(* kernel takes.                                                           *)

\* the convolution_params Validate reads; baseValid and inputChecked are what
\* ConvolutionKernelBase::Validate and ConvolutionCheckInput make of them
ConvParams ==
    [baseValid : BOOLEAN, inputChecked : BOOLEAN,
     inputX : {0, 63, 64, 128}, inputFeature : {3, 4, 8},
     filterX : {1, 3, 5}, filterY : {1, 3, 5},
     strideX : {1, 2}, strideY : {1, 2},
     outputFeature : {4, 6}, outputBatch : {1, 2}]

\* line 62
BaseChecks(p) == p.baseValid /\ p.inputChecked

\* lines 70-72
bFilterSize(p) ==
    \/ p.filterX = 5 /\ p.filterY = 5
    \/ p.filterX = 3 /\ p.filterY = 3 /\ (p.inputFeature % 4) = 0
    \/ p.filterX = 1 /\ p.filterY = 1

\* line 74
bStride(p) == p.strideX = 1 /\ p.strideY = 1

\* Validate, lines 61-81
Validate_AnyBatch(p) ==
    IF ~BaseChecks(p) THEN FALSE
    ELSE IF (p.inputX % 64) # 0 THEN FALSE
    ELSE IF ~bFilterSize(p) \/ ~bStride(p) \/ (p.outputFeature % 4) # 0
    THEN FALSE
    ELSE TRUE

Validate(p) ==
    IF ~BaseChecks(p) THEN FALSE
    ELSE IF (p.inputX % 64) # 0 THEN FALSE
    ELSE IF ~bFilterSize(p) \/ ~bStride(p) \/ (p.outputFeature % 4) # 0
            \/ p.outputBatch # 1
    THEN FALSE
    ELSE TRUE

NotValidated == [called |-> FALSE, ret |-> FALSE]

\* no call on the kernel
KernelIdle ==
    /\ params = [baseValid |-> TRUE, inputChecked |-> TRUE, inputX |-> 64,
                 inputFeature |-> 4, filterX |-> 1, filterY |-> 1,
                 strideX |-> 1, strideY |-> 1, outputFeature |-> 4,
                 outputBatch |-> 1]
    /\ validated = NotValidated

-----------------------------------------------------------------------------
(* The requests of one executable network.                                 *)

Requests == 1 .. MaxRequests

\* no request of the network but the one of the variables above
NetworkIdle == requests = [r \in Requests |-> "none"]

\* the maps the constructor fills from its arguments, lines 624-629
ModelMap(names) == [n \in names |-> "node"]

\* no request constructed yet
NoRequest ==
    /\ phase = "none"
    /\ graphReady = TRUE
    /\ numRequests = 0
    /\ modelInputsMap = IF cfg.kind = "new" THEN ModelMap(NetInputs) ELSE ModelMap({})
    /\ modelOutputsMap = IF cfg.kind = "new" THEN ModelMap(NetOutputs) ELSE ModelMap({})
    /\ inputs = EmptyMap
    /\ outputs = EmptyMap
    /\ externalPtr = EmptyMap
    /\ preProcData = EmptyMap
    /\ m_curBatch = -1
    /\ nodeBatchLim = [n \in Nodes |-> 0]
    /\ fixedLayout = {}
    /\ pc = "idle"
    /\ asyncState = "Idle"
    /\ steps = <<>>
    /\ last = NoCall
    /\ lastSet = NoneSet

Init ==
    /\ cfg \in Configs
    /\ NoRequest
    /\ NodeIdle /\ KernelIdle /\ NetworkIdle

\* the constructors, lines 343-348 / 620-632; a throwing constructor unwinds
\* through ~InferRequestBase, lines 64-66
Construct ==
    /\ phase = "none"
    /\ LET st == CreateInferRequest(Request) IN
       /\ last' = Call("Construct", "", NullBlob, 0, [st EXCEPT !.ret = NullBlob])
       /\ IF Threw(st)
          THEN /\ phase' = "failed"
               /\ numRequests' = (numRequests + 1) - 1
               /\ UNCHANGED <<bindings, pc>>
          ELSE /\ phase' = "live"
               /\ pc' = "ret"
               /\ numRequests' = numRequests + 1
               /\ inputs' = st.inputs
               /\ outputs' = st.outputs
               /\ externalPtr' = st.externalPtr
               /\ preProcData' = st.preProcData
    /\ UNCHANGED <<cfg, graphReady, modelInputsMap, modelOutputsMap, m_curBatch,
                   nodeBatchLim, fixedLayout, asyncState, steps, lastSet>>

\* ~InferRequestBase, lines 64-66
Destroy ==
    /\ phase = "live" /\ pc = "idle"
    /\ phase' = "destroyed"
    /\ numRequests' = numRequests - 1
    /\ inputs' = EmptyMap /\ outputs' = EmptyMap
    /\ externalPtr' = EmptyMap /\ preProcData' = EmptyMap
    /\ steps' = <<>>
    /\ last' = [NoCall EXCEPT !.op = "Destroy"]
    /\ lastSet' = NoneSet
    /\ UNCHANGED <<cfg, graphReady, modelInputsMap, modelOutputsMap, m_curBatch,
                   nodeBatchLim, fixedLayout, pc, asyncState>>

\* the graph belongs to the executable network: its readiness is not the
\* request's to decide
GraphStatus ==
    /\ phase \in {"none", "live"} /\ pc = "idle"
    /\ graphReady' = ~graphReady
    /\ UNCHANGED <<cfg, phase, numRequests, modelInputsMap, modelOutputsMap,
                   inputs, outputs, externalPtr, preProcData, m_curBatch,
                   nodeBatchLim, fixedLayout, pc, asyncState, steps, last, lastSet>>

-----------------------------------------------------------------------------
(* The calls of a live, idle request.  A call runs in one step and leaves  *)
(* its arguments and outcome in `last`; Return hands control back to the   *)
(* caller.                                                                 *)

Return ==
    /\ pc = "ret"
    /\ pc' = "idle"
    /\ last' = NoCall
    /\ steps' = <<>>
    /\ UNCHANGED <<cfg, phase, graphReady, numRequests, modelInputsMap,
                   modelOutputsMap, inputs, outputs, externalPtr, preProcData,
                   m_curBatch, nodeBatchLim, fixedLayout, asyncState, lastSet>>

Adopt(st) ==
    /\ inputs' = st.inputs
    /\ outputs' = st.outputs
    /\ externalPtr' = st.externalPtr
    /\ preProcData' = st.preProcData

DoSetBlob ==
    /\ phase = "live" /\ pc = "idle"
    /\ \E name \in Names, data \in UserBlobs \cup {NullBlob} :
         LET st == SetBlob(Request, name, data) IN
         /\ Adopt(st)
         /\ last' = Call("SetBlob", name, data, 0, st)
         /\ lastSet' = IF ~Threw(st) /\ name \in NetNames
                       THEN [lastSet EXCEPT ![name] = data] ELSE lastSet
    /\ pc' = "ret"
    /\ UNCHANGED <<cfg, phase, graphReady, numRequests, modelInputsMap,
                   modelOutputsMap, m_curBatch, nodeBatchLim, fixedLayout,
                   asyncState, steps>>

DoGetBlob ==
    /\ phase = "live" /\ pc = "idle"
    /\ \E name \in Names :
         LET st == GetBlob(Request, name) IN
         /\ Adopt(st)
         /\ last' = Call("GetBlob", name, NullBlob, 0, st)
    /\ pc' = "ret"
    /\ UNCHANGED <<cfg, phase, graphReady, numRequests, modelInputsMap,
                   modelOutputsMap, m_curBatch, nodeBatchLim, fixedLayout,
                   asyncState, steps, lastSet>>

DoSetBatch ==
    /\ phase = "live" /\ pc = "idle"
    /\ \E new_batch \in 0..(MaxBatch + 1) :
         LET exc == SetBatchCheck(new_batch) IN
         /\ last' = [NoCall EXCEPT !.op = "SetBatch", !.n = new_batch, !.exc = exc]
         /\ IF exc = "none"
            THEN /\ m_curBatch' = new_batch
                 /\ nodeBatchLim' = SetDynamicBatchLim(new_batch)
            ELSE UNCHANGED <<m_curBatch, nodeBatchLim>>
    /\ pc' = "ret"
    /\ UNCHANGED <<cfg, phase, graphReady, numRequests, modelInputsMap,
                   modelOutputsMap, inputs, outputs, externalPtr, preProcData,
                   fixedLayout, asyncState, steps, lastSet>>

-----------------------------------------------------------------------------
(* InferRequestBase::InferImpl, lines 152-188, one action per statement.   *)
(* The async request is Busy from StartAsync until the run has ended and   *)
(* can be cancelled while Busy.                                            *)

\* ThrowIfCanceled, lines 319-323: TRUE when it throws
ThrowIfCanceled_Never == FALSE
ThrowIfCanceled == cfg.async /\ asyncState = "Cancelled"

\* the statement that follows each statement of InferImpl
AfterPush_SkipStates == "Infer"
AfterPush == IF cfg.hasStates THEN "PushStates" ELSE "Infer"
AfterInfer == IF cfg.hasStates THEN "PullStates" ELSE "check3"

InferUnchanged ==
    UNCHANGED <<cfg, phase, graphReady, numRequests, modelOutputsMap, inputs,
                outputs, externalPtr, preProcData, lastSet>>

\* the run goes on with statement `next`
Goto(did, next) ==
    /\ pc' = next
    /\ steps' = Append(steps, did)
    /\ UNCHANGED <<asyncState, last>>

\* the run ends: with an exception, or normally after `did`
EndRun(did, exc, text) ==
    /\ pc' = "ret"
    /\ steps' = Append(steps, did)
    /\ asyncState' = "Idle"
    /\ last' = [NoCall EXCEPT !.op = "InferImpl", !.exc = exc, !.msg = text]

InferStart ==
    /\ phase = "live" /\ pc = "idle"
    /\ pc' = "check1"
    /\ steps' = <<>>
    /\ asyncState' = IF cfg.async THEN "Busy" ELSE asyncState
    /\ last' = [NoCall EXCEPT !.op = "InferImpl", !.exc = "running"]
    /\ InferUnchanged
    /\ UNCHANGED <<modelInputsMap, m_curBatch, nodeBatchLim, fixedLayout>>

\* AsyncInferRequest::Cancel, from any thread while the request is busy
Cancel ==
    /\ cfg.async /\ pc \notin {"idle", "ret"} /\ asyncState = "Busy"
    /\ asyncState' = "Cancelled"
    /\ steps' = Append(steps, "cancel")
    /\ InferUnchanged
    /\ UNCHANGED <<modelInputsMap, m_curBatch, nodeBatchLim, fixedLayout, pc, last>>

\* line 158, 171, 185
Checkpoint(at, next) ==
    /\ pc = at
    /\ IF ThrowIfCanceled THEN EndRun("canceled", "Cancelled", at)
       ELSE Goto(at, next)
    /\ InferUnchanged
    /\ UNCHANGED <<modelInputsMap, m_curBatch, nodeBatchLim, fixedLayout>>

InferCheck1 == Checkpoint("check1", "prepare")
InferCheck2 == Checkpoint("check2", "PushInputData")
InferCheck3 == Checkpoint("check3", "PullOutputData")

\* lines 160-165: redefineMemoryForInputNodes, or SetBatch with the batch of the
\* first input blob
InferPrepare ==
    /\ pc = "prepare"
    /\ IF ~HasDynamicInput /\ cfg.kind = "new" /\ cfg.batchLimit > 0
       THEN LET batch == Dims(inputs[InputOrder[1]])[1] IN
            IF SetBatchCheck(batch) # "none"
            THEN /\ EndRun("throw", SetBatchCheck(batch), "SetBatch")
                 /\ UNCHANGED <<m_curBatch, nodeBatchLim>>
            ELSE /\ Goto("SetBatch", "preproc")
                 /\ m_curBatch' = batch
                 /\ nodeBatchLim' = SetDynamicBatchLim(batch)
       ELSE /\ Goto("prepare", "preproc")
            /\ UNCHANGED <<m_curBatch, nodeBatchLim>>
    /\ InferUnchanged
    /\ UNCHANGED <<modelInputsMap, fixedLayout>>

\* line 167
InferPreprocess ==
    /\ pc = "preproc"
    /\ Goto("execDataPreprocessing", "changeDefaultPtr")
    /\ InferUnchanged
    /\ UNCHANGED <<modelInputsMap, m_curBatch, nodeBatchLim, fixedLayout>>

\* lines 169, 202-309: every externalPtr entry names a graph input or output,
\* or changeDefaultPtr throws
ChangeDefaultPtrThrows ==
    \E n \in DOMAIN externalPtr : n \notin GraphInputs \cup GraphOutputs

InferChangeDefaultPtr ==
    /\ pc = "changeDefaultPtr"
    /\ IF ChangeDefaultPtrThrows
       THEN EndRun("throw", "General", "Cannot find input/output blob")
       ELSE Goto("changeDefaultPtr", "check2")
    /\ InferUnchanged
    /\ UNCHANGED <<modelInputsMap, m_curBatch, nodeBatchLim, fixedLayout>>

\* PushInputData, lines 601-617 / 858-867, over the inputs in map order: the
\* inputs pushed before one throws (all of them when none does)
RECURSIVE Pushed(_)
Pushed(names) ==
    IF names = <<>> THEN <<>>
    ELSE LET n == Head(names) IN
         IF ~Has(inputs, n) THEN Pushed(Tail(names))
         ELSE IF cfg.kind = "new" /\ (~Has(modelInputsMap, n) \/ modelInputsMap[n] = "null")
         THEN <<>>
         ELSE IF ~HasBuffer(inputs[n]) THEN <<n>>
         ELSE <<n>> \o Pushed(Tail(names))

PushThrows ==
    \E n \in DOMAIN inputs :
        \/ cfg.kind = "new" /\ (~Has(modelInputsMap, n) \/ modelInputsMap[n] = "null")
        \/ ~HasBuffer(inputs[n])

InferPushInputData ==
    /\ pc = "PushInputData"
    /\ IF PushThrows
       THEN EndRun("throw", "General", "PushInputData")
       ELSE Goto("PushInputData", AfterPush)
    /\ fixedLayout' =
         IF cfg.kind = "legacy"
         THEN fixedLayout \cup
              {inputs[Pushed(InputOrder)[i]] : i \in
                  {j \in 1..Len(Pushed(InputOrder)) :
                      Layout(inputs[Pushed(InputOrder)[j]]) = "ANY"}}
         ELSE fixedLayout
    /\ modelInputsMap' =
         IF cfg.kind = "new"
         THEN [n \in DOMAIN modelInputsMap \cup
                     {m \in DOMAIN inputs : ~Has(modelInputsMap, m) /\
                         \A k \in DOMAIN inputs : ~Has(modelInputsMap, k) => m = k} |->
                  IF Has(modelInputsMap, n) THEN modelInputsMap[n] ELSE "null"]
         ELSE modelInputsMap
    /\ InferUnchanged
    /\ UNCHANGED <<m_curBatch, nodeBatchLim>>

\* lines 175-177
InferPushStates ==
    /\ pc = "PushStates"
    /\ Goto("PushStates", "Infer")
    /\ InferUnchanged
    /\ UNCHANGED <<modelInputsMap, m_curBatch, nodeBatchLim, fixedLayout>>

\* line 179
InferGraph ==
    /\ pc = "Infer"
    /\ Goto("Infer", AfterInfer)
    /\ InferUnchanged
    /\ UNCHANGED <<modelInputsMap, m_curBatch, nodeBatchLim, fixedLayout>>

\* lines 181-183
InferPullStates ==
    /\ pc = "PullStates"
    /\ Goto("PullStates", "check3")
    /\ InferUnchanged
    /\ UNCHANGED <<modelInputsMap, m_curBatch, nodeBatchLim, fixedLayout>>

\* line 187
InferPullOutputData ==
    /\ pc = "PullOutputData"
    /\ EndRun("PullOutputData", "none", "")
    /\ InferUnchanged
    /\ UNCHANGED <<modelInputsMap, m_curBatch, nodeBatchLim, fixedLayout>>

-----------------------------------------------------------------------------

\* a step of the request leaves the rest alone
others == <<nodeVars, kernelVars, networkVars>>

Next ==
    \/ Construct /\ UNCHANGED others
    \/ Return /\ UNCHANGED others
    \/ Destroy /\ UNCHANGED others
    \/ GraphStatus /\ UNCHANGED others
    \/ DoSetBlob /\ UNCHANGED others
    \/ DoGetBlob /\ UNCHANGED others
    \/ DoSetBatch /\ UNCHANGED others
    \/ InferStart /\ UNCHANGED others
    \/ Cancel /\ UNCHANGED others
    \/ InferCheck1 /\ UNCHANGED others
    \/ InferPrepare /\ UNCHANGED others
    \/ InferPreprocess /\ UNCHANGED others
    \/ InferChangeDefaultPtr /\ UNCHANGED others
    \/ InferCheck2 /\ UNCHANGED others
    \/ InferPushInputData /\ UNCHANGED others
    \/ InferPushStates /\ UNCHANGED others
    \/ InferGraph /\ UNCHANGED others
    \/ InferPullStates /\ UNCHANGED others
    \/ InferCheck3 /\ UNCHANGED others
    \/ InferPullOutputData /\ UNCHANGED others

Spec == Init /\ [][Next]_vars

-----------------------------------------------------------------------------
(* The name lookup of InferRequest::SetBlob as a function of the two maps: *)
(* a live request of the new API whose maps hold any contents their type   *)
(* allows, null node pointers included (no constructor leaves one behind). *)

NodeMaps(names) ==
    UNION {[d -> {"node", "null"}] : d \in SUBSET names}

InitLookup ==
    /\ cfg \in {c \in Configs : c.kind = "new" /\ c.graphs = 1 /\ ~c.hasStates /\ ~c.async}
    /\ phase = "live"
    /\ graphReady = TRUE
    /\ numRequests = 1
    /\ modelInputsMap \in NodeMaps(NetInputs)
    /\ modelOutputsMap \in NodeMaps(NetOutputs)
    /\ inputs = [n \in NetInputs |-> InBlob(n)]
    /\ outputs = [n \in NetOutputs |-> IF n \in NetInputs THEN InBlob(n) ELSE OutBlob(n)]
    /\ externalPtr = EmptyMap
    /\ preProcData = EmptyMap
    /\ m_curBatch = -1
    /\ nodeBatchLim = [n \in Nodes |-> 0]
    /\ fixedLayout = {}
    /\ pc = "idle"
    /\ asyncState = "Idle"
    /\ steps = <<>>
    /\ last = NoCall
    /\ lastSet = NoneSet
    /\ NodeIdle /\ KernelIdle /\ NetworkIdle

NextLookup ==
    \/ DoSetBlob /\ UNCHANGED others
    \/ Return /\ UNCHANGED others

SpecLookup == InitLookup /\ [][NextLookup]_vars

-----------------------------------------------------------------------------
(* Claims C1 - C5: the bindings. *)

\* C1: in a constructed request, after any calls, _inputs holds a non-null blob
\* for every network input and _outputs one for every network output, and
\* GetBlob on a network input or output of a ready graph does not throw.
C1_BlobsAlwaysBound ==
    phase = "live" =>
        /\ \A n \in NetInputs : Has(inputs, n) /\ inputs[n] # NullBlob
        /\ \A n \in NetOutputs : Has(outputs, n) /\ outputs[n] # NullBlob
        /\ (last.op = "GetBlob" /\ last.name \in NetNames /\ graphReady)
              => last.exc = "none"

\* GetBlob on an output no SetBlob has touched returned a blob
C1_Witness ==
    /\ phase = "live" /\ last.op = "GetBlob" /\ last.exc = "none"
    /\ last.name \in NetOutputs /\ lastSet[last.name] = NullBlob
    /\ last.ret # NullBlob
    /\ \E n \in NetInputs : lastSet[n] # NullBlob

\* the blob of the last successful SetBlob on `name` went through input
\* pre-processing
SetForPreProc(name) ==
    /\ cfg.kind = "legacy" /\ name \in NetInputs
    /\ preProcessingRequired(name, lastSet[name])

\* C2: GetBlob(name) returns the blob of the last successful SetBlob(name, b),
\* for every input or output that needs no input pre-processing, a name that
\* is both included.
C2_RoundTrip ==
    (/\ last.op = "GetBlob" /\ last.exc = "none" /\ last.name \in NetNames
     /\ lastSet[last.name] # NullBlob /\ ~SetForPreProc(last.name))
        => last.ret = lastSet[last.name]

\* the step is a SetBlob call
IsSetBlob == pc = "idle" /\ last'.op = "SetBlob"
\* the step is a GetBlob call
IsGetBlob == pc = "idle" /\ last'.op = "GetBlob"

\* the name resolves in SetBlob: InferRequest looks it up before it reads the
\* blob's buffer, LegacyInferRequest after
Resolves(name) == cfg.kind = "legacy" \/ NewLookup(name) \in {"input", "output"}

NoBuffer(data) == data # NullBlob /\ ~IsCompound(data) /\ ~HasBuffer(data)

\* C3: SetBlob rejects an empty name with NotFound, else a null blob with
\* NotAllocated, else a non-compound blob without a buffer (once the name
\* resolves) with NotAllocated; it throws for each of them and leaves
\* _inputs, _outputs, externalPtr and _preProcData as they were.
C3_BadArgsRejected ==
    [][IsSetBlob =>
        LET name == last'.name
            data == last'.blob
        IN /\ name = "" => last'.exc = "NotFound"
           /\ (name # "" /\ data = NullBlob) => last'.exc = "NotAllocated"
           /\ (name # "" /\ NoBuffer(data) /\ Resolves(name))
                 => last'.exc = "NotAllocated"
           /\ (name = "" \/ data = NullBlob \/ NoBuffer(data))
                 => last'.exc # "none" /\ UNCHANGED bindings]_vars

\* a blob without a buffer was rejected on a name that resolves, with
\* bindings in place that a user had set
C3_Witness ==
    /\ last.op = "SetBlob" /\ last.exc = "NotAllocated"
    /\ last.name \in NetNames /\ NoBuffer(last.blob)
    /\ \E n \in NetNames : lastSet[n] # NullBlob

\* the entry the lookup of InferRequest::SetBlob reads for a name holds a
\* null node pointer
NullNode(name) ==
    \/ Has(modelInputsMap, name) /\ modelInputsMap[name] = "null"
    \/ /\ ~Has(modelInputsMap, name)
       /\ Has(modelOutputsMap, name) /\ modelOutputsMap[name] = "null"

\* C4: InferRequest::SetBlob (given a blob) with a name in neither
\* modelInputsMap nor modelOutputsMap throws NotFound and changes no binding;
\* a name whose entry holds a null node pointer throws a general error.
C4_LookupErrors ==
    [][(IsSetBlob /\ cfg.kind = "new" /\ last'.blob # NullBlob) =>
        LET name == last'.name IN
        /\ (~Has(modelInputsMap, name) /\ ~Has(modelOutputsMap, name))
              => last'.exc = "NotFound" /\ UNCHANGED bindings
        /\ (name # "" /\ NullNode(name))
              => last'.exc = "General" /\ UNCHANGED bindings]_vars

\* both happened: an unknown name met NotFound while another name of the same
\* request holds a null node
C4_Witness ==
    /\ cfg.kind = "new" /\ last.op = "SetBlob" /\ last.blob \in GoodBlobs
    /\ last.exc = "General" /\ NullNode(last.name)
    /\ \E n \in NetNames : ~Has(modelInputsMap, n) /\ ~Has(modelOutputsMap, n)

\* SetBlob takes the name for an input / for an output
AsInput(name) == name \in NetInputs
AsOutput(name) == name \in NetOutputs \ NetInputs

\* the blob passes the argument checks that precede the precision check
PassesArgs(name, data) ==
    IF cfg.kind = "legacy" THEN LegacyCheckArgs(name, data) = "none"
    ELSE NewCheckArgs(name, data) = "none"

\* C5: SetBlob on an input (an output) with a blob whose precision differs from
\* the network's throws ParameterMismatch and binds nothing: _inputs, _outputs
\* and externalPtr keep their values.
C5_PrecisionMismatch ==
    [][IsSetBlob =>
        LET name == last'.name
            data == last'.blob
        IN /\ (AsInput(name) /\ PassesArgs(name, data)
                 /\ Prec(data) # NetInPrec(name))
              => /\ last'.exc = "ParameterMismatch"
                 /\ UNCHANGED <<inputs, outputs, externalPtr>>
           /\ (AsOutput(name) /\ PassesArgs(name, data) /\ ~IsCompound(data)
                 /\ Prec(data) # NetOutPrec(name))
              => /\ last'.exc = "ParameterMismatch"
                 /\ UNCHANGED <<inputs, outputs, externalPtr>>]_vars

\* an output with a user blob bound refused a blob of the input precision
C5_Witness ==
    /\ last.op = "SetBlob" /\ last.exc = "ParameterMismatch"
    /\ AsOutput(last.name) /\ Prec(last.blob) # NetOutPrec(last.name)
    /\ lastSet[last.name] # NullBlob /\ outputs[last.name] = lastSet[last.name]

-----------------------------------------------------------------------------
(* Claim C6: SetBatch. *)

\* dynamic batch is available to SetBatch
DynamicBatchAvailable ==
    IF cfg.kind = "legacy" THEN cfg.enableDynamicBatch
    ELSE cfg.batchLimit # 0 /\ IsDynamic(ModelShape("a"))

\* C6: SetBatch(n) succeeds only when 1 <= n <= batchLimit and dynamic batch is
\* available; when it throws, m_curBatch and every node's limit are unchanged;
\* when it succeeds, m_curBatch = n and every node's limit is n.
C6_SetBatch ==
    [][(pc = "idle" /\ last'.op = "SetBatch") =>
        LET n == last'.n IN
        IF last'.exc = "none"
        THEN /\ 1 <= n /\ n <= cfg.batchLimit /\ DynamicBatchAvailable
             /\ m_curBatch' = n
             /\ \A node \in Nodes : nodeBatchLim'[node] = n
        ELSE UNCHANGED <<m_curBatch, nodeBatchLim>>]_vars

\* SetBatch succeeded with a batch other than the one set before
C6_Witness ==
    /\ last.op = "SetBatch" /\ last.exc = "none"
    /\ m_curBatch = last.n /\ last.n < cfg.batchLimit

\* a SetBatch threw on a request whose batch had been set
C6_WitnessThrow ==
    /\ last.op = "SetBatch" /\ last.exc # "none" /\ m_curBatch >= 1

-----------------------------------------------------------------------------
(* Claims C7, C8: the order of InferImpl. *)

Occurs(what) == \E i \in 1..Len(steps) : steps[i] = what
\* every `what` of the run has a `before` ahead of it
Precedes(before, what) ==
    \A j \in 1..Len(steps) :
        steps[j] = what => \E i \in 1..(j - 1) : steps[i] = before
Checkpoints == {"check1", "check2", "check3"}

\* C7: cancellation is checked before pre-processing, before PushInputData and
\* after graph->Infer; once a checkpoint sees the async request cancelled no
\* later statement runs: a request cancelled before InferImpl starts pushes no
\* input and runs no Infer, and one seen cancelled after Infer pulls no output.
C7_CancellationCheckpoints ==
    /\ Precedes("check1", "execDataPreprocessing")
    /\ Precedes("check2", "PushInputData")
    /\ Precedes("changeDefaultPtr", "check2")
    /\ Precedes("Infer", "check3")
    /\ Precedes("check3", "PullOutputData")
    \* a checkpoint that follows a cancellation does not pass
    /\ \A i, j \in 1..Len(steps) :
          (i < j /\ steps[i] = "cancel") => steps[j] \notin Checkpoints
    \* a checkpoint that saw the cancellation ends the run
    /\ \A i \in 1..Len(steps) :
          steps[i] = "canceled" => i = Len(steps) /\ pc = "ret" /\ last.exc = "Cancelled"
    /\ (Len(steps) > 0 /\ steps[1] = "cancel")
          => ~Occurs("PushInputData") /\ ~Occurs("Infer")
    /\ (Occurs("Infer") /\ Occurs("canceled")) => ~Occurs("PullOutputData")

\* the checkpoint after graph->Infer saw a cancellation
C7_Witness ==
    /\ Occurs("Infer") /\ Occurs("canceled") /\ pc = "ret"
    /\ last.op = "InferImpl" /\ last.exc = "Cancelled"

\* the statements C8 orders, as the run did them
Ordered ==
    SelectSeq(steps, LAMBDA x : x \in {"changeDefaultPtr", "PushInputData",
        "PushStates", "Infer", "PullStates", "PullOutputData"})

\* C8: a run of InferImpl that completes without an exception does, once each
\* and in this order, changeDefaultPtr, PushInputData, PushStates (with memory
\* states only), graph->Infer, PullStates (with memory states only),
\* PullOutputData; Infer never runs before the inputs are pushed, outputs are
\* never pulled before Infer.
C8_InferOrder ==
    /\ (last.op = "InferImpl" /\ last.exc = "none") =>
          Ordered = IF cfg.hasStates
                    THEN <<"changeDefaultPtr", "PushInputData", "PushStates",
                           "Infer", "PullStates", "PullOutputData">>
                    ELSE <<"changeDefaultPtr", "PushInputData", "Infer",
                           "PullOutputData">>
    /\ Precedes("PushInputData", "Infer")
    /\ Precedes("Infer", "PullOutputData")

\* a run with memory states completed
C8_Witness ==
    /\ last.op = "InferImpl" /\ last.exc = "none" /\ cfg.hasStates
    /\ Occurs("PullStates") /\ Occurs("PullOutputData")

-----------------------------------------------------------------------------
(* Claims C9, C10: GetBlob. *)

\* C9: GetBlob throws "Graph is not ready!" when the graph is not ready, and
\* "Cannot find blob with name" when the name is no graph input or output;
\* either way _inputs, _outputs, externalPtr and _preProcData are unchanged.
C9_GetBlobErrors ==
    [][IsGetBlob =>
        LET name == last'.name IN
        /\ ~graphReady
              => /\ last'.exc = "General" /\ last'.msg = "Graph is not ready!"
                 /\ UNCHANGED bindings
        /\ (graphReady /\ name \notin GraphInputs \cup GraphOutputs)
              => /\ last'.exc = "General"
                 /\ last'.msg = "Cannot find blob with name"
                 /\ UNCHANGED bindings]_vars

\* GetBlob on an input met a graph that was not ready, after a user had bound
\* a blob
C9_Witness ==
    /\ last.op = "GetBlob" /\ last.msg = "Graph is not ready!"
    /\ last.name \in NetInputs /\ ~graphReady
    /\ \E n \in NetNames : lastSet[n] # NullBlob

\* GetBlob on a name the graph does not know
C9_WitnessNoName ==
    /\ last.op = "GetBlob" /\ last.msg = "Cannot find blob with name"
    /\ last.name = "x" /\ graphReady

C10_WitnessBound ==
    /\ cfg.kind = "legacy" /\ last.op = "GetBlob" /\ last.exc = "none"
    /\ last.name = "a" /\ ~Has(preProcData, "a")
    /\ last.ret = inputs["a"] /\ last.ret \in UserBlobs

-----------------------------------------------------------------------------
(* The reshape node over every op: the static check and the constructor.   *)

\* a network compiled without any option
PlainConfig ==
    [kind |-> "new", batchLimit |-> 0, enableDynamicBatch |-> FALSE,
     modelDynamic |-> FALSE, preProc |-> "none", hasStates |-> FALSE,
     async |-> FALSE, graphs |-> 1]

InitNode ==
    /\ cfg = PlainConfig
    /\ NoRequest
    /\ nodeOp \in Ops
    /\ errorMessage \in Messages
    /\ nodeCall = NoNodeCall
    /\ KernelIdle /\ NetworkIdle

\* isSupportedOperation(op, errorMessage), lines 15-31
CallIsSupportedOperation ==
    /\ LET r == isSupportedOperation(nodeOp, errorMessage) IN
       /\ errorMessage' = r.errorMessage
       /\ nodeCall' = [fn |-> "isSupportedOperation", ret |-> r.ret,
                       exc |-> r.exc, what |-> "", base |-> "none"]
    /\ UNCHANGED <<nodeOp, requestVars, kernelVars, networkVars>>

\* MKLDNNReshapeNode(op, eng, cache), lines 33-39; the base class constructor
\* completes or throws an exception of its own
ConstructNode ==
    /\ \E base \in {"none", "General"} :
         LET r == MKLDNNReshapeNode(nodeOp, base) IN
         nodeCall' = [fn |-> "MKLDNNReshapeNode", ret |-> FALSE,
                      exc |-> r.exc, what |-> r.what, base |-> base]
    /\ UNCHANGED <<nodeOp, errorMessage, requestVars, kernelVars, networkVars>>

NextNode ==
    \/ CallIsSupportedOperation
    \/ ConstructNode

SpecNode == InitNode /\ [][NextNode]_vars

\* the op has no dynamic shapes and is an opset1 Reshape, Squeeze or Unsqueeze
StaticReshapeLike(o) ==
    o.dynamic = "no" /\ o.type \in {"Reshape", "Squeeze", "Unsqueeze"}

\* C11: isSupportedOperation never throws; it returns true exactly when the
\* op has no dynamic shapes and is an opset1 Reshape, Squeeze or Unsqueeze;
\* when it returns false for dynamic shapes or for the op's class it has set
\* errorMessage to the text of that reason; the constructor taking an op,
\* once its base class is built, throws NotImplemented exactly when
\* isSupportedOperation returns false, and nothing else.
C11_IsSupportedOperation ==
    /\ nodeCall.fn = "isSupportedOperation" =>
         /\ nodeCall.exc = "none"
         /\ nodeCall.ret <=> StaticReshapeLike(nodeOp)
         /\ nodeOp.dynamic = "yes" => errorMessage = DynamicShapesMessage
         /\ (nodeOp.dynamic = "no" /\ ~nodeCall.ret)
               => errorMessage = OnlyOpset1Message
    /\ (nodeCall.fn = "MKLDNNReshapeNode" /\ nodeCall.base = "none") =>
         /\ nodeCall.exc \in {"none", "NotImplemented"}
         /\ nodeCall.exc = "NotImplemented"
               <=> ~isSupportedOperation(nodeOp, "").ret
         /\ nodeCall.exc = "NotImplemented" <=> ~StaticReshapeLike(nodeOp)

\* the check refused a static op of another class and replaced a stale text
C11_Witness ==
    /\ nodeCall.fn = "isSupportedOperation" /\ ~nodeCall.ret
    /\ nodeOp.dynamic = "no" /\ nodeOp.type = "Transpose"
    /\ errorMessage = OnlyOpset1Message

\* the constructor threw NotImplemented for an op with dynamic shapes
C11_WitnessConstructor ==
    /\ nodeCall.fn = "MKLDNNReshapeNode" /\ nodeCall.base = "none"
    /\ nodeCall.exc = "NotImplemented" /\ nodeOp.dynamic = "yes"
    /\ nodeCall.what = DynamicShapesMessage

\* the check swallowed an exception of isDynamicNgraphNode
C11_WitnessCatch ==
    /\ nodeCall.fn = "isSupportedOperation" /\ ~nodeCall.ret
    /\ nodeOp.dynamic = "throws" /\ nodeCall.exc = "none"

-----------------------------------------------------------------------------
(* The convolution kernel over every parameter combination.                *)

InitKernel ==
    /\ cfg = PlainConfig
    /\ NoRequest
    /\ params \in ConvParams
    /\ validated = NotValidated
    /\ NodeIdle /\ NetworkIdle

\* Validate(p, o), lines 61-81
CallValidate ==
    /\ validated' = [called |-> TRUE, ret |-> Validate(params)]
    /\ UNCHANGED <<params, requestVars, nodeVars, networkVars>>

NextKernel == CallValidate

SpecKernel == InitKernel /\ [][NextKernel]_vars

\* C12: Validate returns true exactly when the base checks pass, input X is a
\* multiple of 64, the filter is 5x5, or 1x1, or 3x3 with an input feature
\* count that is a multiple of 4, the stride is 1x1, the output feature count
\* is a multiple of 4 and the output batch is 1; false otherwise.
C12_Validate ==
    validated.called =>
        (validated.ret <=>
            /\ params.baseValid /\ params.inputChecked
            /\ \E k \in 0 .. 2 : params.inputX = 64 * k
            /\ \/ <<params.filterX, params.filterY>> = <<5, 5>>
               \/ <<params.filterX, params.filterY>> = <<1, 1>>
               \/ /\ <<params.filterX, params.filterY>> = <<3, 3>>
                  /\ params.inputFeature \in {4, 8}
            /\ <<params.strideX, params.strideY>> = <<1, 1>>
            /\ params.outputFeature = 4
            /\ params.outputBatch = 1)

\* a 3x3 convolution over 8 input features was accepted
C12_Witness ==
    /\ validated.called /\ validated.ret
    /\ params.filterX = 3 /\ params.inputFeature = 8 /\ params.inputX = 128

\* a convolution was refused for its output batch alone
C12_WitnessBatch ==
    /\ validated.called /\ ~validated.ret
    /\ params.outputBatch = 2
    /\ Validate([params EXCEPT !.outputBatch = 1])

-----------------------------------------------------------------------------
(* Claim C13: a SetBlob that throws.                                       *)

\* C13: a SetBlob call that throws, in either request type and for any name
\* and blob, leaves _inputs, _outputs, externalPtr and _preProcData exactly as
\* they were before the call.
C13_ThrowLeavesBindings ==
    [][(IsSetBlob /\ last'.exc # "none") => UNCHANGED bindings]_vars

-----------------------------------------------------------------------------
(* The request counter of one executable network: its requests are built   *)
(* and destroyed in any order, each constructor in two steps (the counter  *)
(* is bumped first, lines 32-33), so that constructions overlap.           *)

\* ~InferRequestBase, lines 64-66
BaseDestructor_Skip(n) == n
BaseDestructor(n) == n - 1

\* the constructor has built its base class and entered CreateInferRequest:
\* line 33
BeginCreate(r) ==
    /\ requests[r] = "none"
    /\ numRequests' = numRequests + 1
    /\ requests' = [requests EXCEPT ![r] = "constructing"]
    /\ UNCHANGED <<cfg, phase, graphReady, modelInputsMap, modelOutputsMap,
                   inputs, outputs, externalPtr, preProcData, m_curBatch,
                   nodeBatchLim, fixedLayout, pc, asyncState, steps, last,
                   lastSet, nodeVars, kernelVars>>

\* the rest of CreateInferRequest, lines 34-61: it returns, or it throws and
\* the constructor unwinds through ~InferRequestBase
FinishCreate(r) ==
    /\ requests[r] = "constructing"
    /\ IF Threw(CreateInferRequest(Request))
       THEN /\ requests' = [requests EXCEPT ![r] = "failed"]
            /\ numRequests' = BaseDestructor(numRequests)
       ELSE /\ requests' = [requests EXCEPT ![r] = "live"]
            /\ UNCHANGED numRequests
    /\ UNCHANGED <<cfg, phase, graphReady, modelInputsMap, modelOutputsMap,
                   inputs, outputs, externalPtr, preProcData, m_curBatch,
                   nodeBatchLim, fixedLayout, pc, asyncState, steps, last,
                   lastSet, nodeVars, kernelVars>>

\* the request is destroyed, lines 64-66
DestroyRequest(r) ==
    /\ requests[r] = "live"
    /\ requests' = [requests EXCEPT ![r] = "destroyed"]
    /\ numRequests' = BaseDestructor(numRequests)
    /\ UNCHANGED <<cfg, phase, graphReady, modelInputsMap, modelOutputsMap,
                   inputs, outputs, externalPtr, preProcData, m_curBatch,
                   nodeBatchLim, fixedLayout, pc, asyncState, steps, last,
                   lastSet, nodeVars, kernelVars>>

NextCount ==
    \/ \E r \in Requests : BeginCreate(r)
    \/ \E r \in Requests : FinishCreate(r)
    \/ \E r \in Requests : DestroyRequest(r)
    \/ GraphStatus /\ UNCHANGED others

SpecCount == Init /\ [][NextCount]_vars

\* the requests in one of the given places of their life
RequestsIn(places) == {r \in Requests : requests[r] \in places}

C14_WitnessNoGraph ==
    /\ cfg.graphs = 0 /\ RequestsIn({"failed"}) = Requests
    /\ numRequests = 0

====
